---------------------------- MODULE Spec2Model ----------------------------
(***************************************************************************)
(* A model of streamlit_app.py (Smart Resume Parser): the document reader, *)
(* the two text cleaners, the contact / skill / section extractors, the    *)
(* record builder parse_resume, the skill search search_by_skill and the   *)
(* two CSV exports.                                                        *)
(*                                                                         *)
(* Python strings are modelled as sequences of one-character strings, so   *)
(* that substring tests, prefixes, case folding and the regular            *)
(* expressions are computed character by character, as the code does.      *)
(* Python dicts are modelled as records; an absent key is an absent field. *)
(***************************************************************************)
EXTENDS Integers, Sequences, FiniteSets, TLC

VARIABLES
    pc,              \* which operation has run ("input" before any)
    text,            \* the str argument of an extractor
    out,             \* the value the extractor returned
    resumes,         \* search_by_skill: the record collection
    skill,           \* search_by_skill: the query as given
    case_sensitive,  \* search_by_skill: flag
    partial_match,   \* search_by_skill: flag
    matched,         \* search_by_skill: the returned list
    file_path,       \* parse_resume: the path argument
    raw_text,        \* parse_resume: what read_resume returned
    document,        \* parse_resume: the file at file_path (what the decoders meet)
    record,          \* parse_resume: the returned dict
    now,             \* the wall clock, in seconds after ClockBase
    disk,            \* export: the files written, each a path with its rows
    writes           \* history: the paths the exports opened for writing, in order

vars == <<pc, text, out, resumes, skill, case_sensitive, partial_match, matched,
          file_path, raw_text, document, record, now, disk, writes>>

None == "None"

\* {}
EmptyDict == <<>>

S_FileNotFound == <<"F", "i", "l", "e", " ", "n", "o", "t", " ", "f", "o", "u", "n", "d", "!">>

-----------------------------------------------------------------------------
(* Characters and str methods *)

UpperLetters == <<"A","B","C","D","E","F","G","H","I","J","K","L","M",
                  "N","O","P","Q","R","S","T","U","V","W","X","Y","Z">>
LowerLetters == <<"a","b","c","d","e","f","g","h","i","j","k","l","m",
                  "n","o","p","q","r","s","t","u","v","w","x","y","z">>
Digits == <<"0","1","2","3","4","5","6","7","8","9">>

Range(s) == {s[i] : i \in DOMAIN s}

IsUpper(c) == c \in Range(UpperLetters)
IsLetter(c) == c \in Range(UpperLetters) \cup Range(LowerLetters)
IsDigit(c) == c \in Range(Digits)
\* \s of the re module (for the characters the model uses)
IsSpace(c) == c \in {" ", "\t", "\n", "\r", "\f"}
\* \w of the re module
IsWordChar(c) == IsLetter(c) \/ IsDigit(c) \/ c = "_"

lower_char(c) ==
    IF IsUpper(c) THEN LowerLetters[CHOOSE i \in DOMAIN UpperLetters : UpperLetters[i] = c]
    ELSE c

\* str.lower()
str_lower(s) == [i \in 1..Len(s) |-> lower_char(s[i])]

RECURSIVE lstrip(_)
lstrip(s) == IF s # <<>> /\ IsSpace(Head(s)) THEN lstrip(Tail(s)) ELSE s

RECURSIVE rstrip(_)
rstrip(s) == IF s # <<>> /\ IsSpace(s[Len(s)]) THEN rstrip(SubSeq(s, 1, Len(s) - 1)) ELSE s

\* str.strip()
str_strip(s) == rstrip(lstrip(s))

\* s[i:i+len(p)] == p
MatchesAt(s, p, i) ==
    /\ i >= 1
    /\ i + Len(p) - 1 <= Len(s)
    /\ \A k \in 1..Len(p) : s[i + k - 1] = p[k]

\* needle in hay
str_in(needle, hay) == \E i \in 1..(Len(hay) + 1) : MatchesAt(hay, needle, i)

\* s.startswith(p)
startswith(s, p) == MatchesAt(s, p, 1)

\* sep.join(parts)
RECURSIVE str_join(_, _)
str_join(sep, parts) ==
    IF parts = <<>> THEN <<>>
    ELSE IF Len(parts) = 1 THEN parts[1]
    ELSE parts[1] \o sep \o str_join(sep, Tail(parts))

\* s.split(sep) for a one-character sep: the pieces between the separators
RECURSIVE str_split(_, _)
str_split(s, sep) ==
    IF \A i \in DOMAIN s : s[i] # sep THEN <<s>>
    ELSE LET k == CHOOSE i \in DOMAIN s : s[i] = sep /\ \A j \in 1..(i - 1) : s[j] # sep
         IN  <<SubSeq(s, 1, k - 1)>> \o str_split(SubSeq(s, k + 1, Len(s)), sep)

\* list(dict.fromkeys(seq)): the distinct elements in order of first occurrence
RECURSIVE dict_fromkeys(_)
dict_fromkeys(seq) ==
    IF seq = <<>> THEN <<>>
    ELSE LET init == dict_fromkeys(SubSeq(seq, 1, Len(seq) - 1))
             x == seq[Len(seq)]
         IN  IF x \in Range(init) THEN init ELSE Append(init, x)

-----------------------------------------------------------------------------
(* search_by_skill *)

\* line 377: skill if case_sensitive else skill.lower().strip()
normalize_query(q, cs) == IF cs THEN q ELSE str_strip(str_lower(q))

\* line 388: resume_skill if case_sensitive else resume_skill.lower()
normalize_skill(s, cs) == IF cs THEN s ELSE str_lower(s)

\* lines 390-403: what one skill of a record appends to matches: one entry
\* or nothing
match_one_OneDirection(q, resume_skill, cs, pm) ==
    LET s == normalize_skill(resume_skill, cs)
    IN  IF pm
        THEN IF str_in(q, s)
             THEN <<[skill |-> resume_skill,
                     match_type |-> IF Len(q) < Len(s) THEN "partial" ELSE "exact"]>>
             ELSE <<>>
        ELSE IF q = s THEN <<[skill |-> resume_skill, match_type |-> "exact"]>> ELSE <<>>

match_one(q, resume_skill, cs, pm) ==
    LET s == normalize_skill(resume_skill, cs)
    IN  IF pm
        THEN IF str_in(q, s) \/ str_in(s, q)
             THEN <<[skill |-> resume_skill,
                     match_type |-> IF Len(q) < Len(s) THEN "partial" ELSE "exact"]>>
             ELSE <<>>
        ELSE IF q = s THEN <<[skill |-> resume_skill, match_type |-> "exact"]>> ELSE <<>>

\* lines 385-403: the inner loop over resume_skills
RECURSIVE match_skills(_, _, _, _)
match_skills(q, resume_skills, cs, pm) ==
    IF resume_skills = <<>> THEN <<>>
    ELSE match_one(q, Head(resume_skills), cs, pm)
             \o match_skills(q, Tail(resume_skills), cs, pm)

\* line 381: "error" in resume
skip_resume_Never(resume) == FALSE

skip_resume(resume) == "error" \in DOMAIN resume

\* line 384: resume.get("skills", [])
get_skills(resume) == IF "skills" \in DOMAIN resume THEN resume.skills ELSE <<>>

\* lines 380-411: the outer loop, appending one entry per record that matched
RECURSIVE collect_matches(_, _, _, _)
collect_matches(rs, q, cs, pm) ==
    IF rs = <<>> THEN <<>>
    ELSE LET resume == Head(rs)
             rest == collect_matches(Tail(rs), q, cs, pm)
         IN  IF skip_resume(resume) THEN rest
             ELSE LET resume_skills == get_skills(resume)
                      matches == match_skills(q, resume_skills, cs, pm)
                  IN  IF matches = <<>> THEN rest
                      ELSE <<[name |-> resume.file_info.name,
                              size_kb |-> resume.file_info.size_kb,
                              matched_skills |-> matches,
                              total_skills |-> Len(resume_skills),
                              match_count |-> Len(matches)]>> \o rest

\* Insert e behind every element whose match_count is >= e's (a stable
\* descending insertion).
RECURSIVE insert_desc(_, _)
insert_desc(sorted, e) ==
    IF sorted = <<>> THEN <<e>>
    ELSE IF Head(sorted).match_count >= e.match_count
         THEN <<Head(sorted)>> \o insert_desc(Tail(sorted), e)
         ELSE <<e>> \o sorted

RECURSIVE sort_stable_desc(_)
sort_stable_desc(seq) ==
    IF seq = <<>> THEN <<>>
    ELSE insert_desc(sort_stable_desc(SubSeq(seq, 1, Len(seq) - 1)), seq[Len(seq)])

RECURSIVE insert_asc(_, _)
insert_asc(sorted, e) ==
    IF sorted = <<>> THEN <<e>>
    ELSE IF Head(sorted).match_count <= e.match_count
         THEN <<Head(sorted)>> \o insert_asc(Tail(sorted), e)
         ELSE <<e>> \o sorted

RECURSIVE sort_stable_asc(_)
sort_stable_asc(seq) ==
    IF seq = <<>> THEN <<>>
    ELSE insert_asc(sort_stable_asc(SubSeq(seq, 1, Len(seq) - 1)), seq[Len(seq)])

RECURSIVE reverse(_)
reverse(seq) == IF seq = <<>> THEN <<>> ELSE Append(reverse(Tail(seq)), Head(seq))

\* matched.sort(key=...) followed by matched.reverse(): ties come out reversed.
sort_matched_AscThenReverse(seq) == reverse(sort_stable_asc(seq))

\* line 414: matched.sort(key=lambda x: x["match_count"], reverse=True)
\* (list.sort is stable, and reverse=True keeps equal elements in their
\* original order)
sort_matched(seq) == sort_stable_desc(seq)

\* lines 361-415
search_by_skill(rs, q0, cs, pm) ==
    IF q0 = <<>> \/ rs = <<>> THEN <<>>
    ELSE sort_matched(collect_matches(rs, normalize_query(q0, cs), cs, pm))

-----------------------------------------------------------------------------
(* Cleaning: clean_text, clean_text_keep_lines *)

\* re.sub(r"\s+", " ", text): every run of whitespace becomes one space
RECURSIVE collapse_ws(_)
collapse_ws(s) ==
    IF s = <<>> THEN <<>>
    ELSE IF IsSpace(Head(s)) THEN <<" ">> \o collapse_ws(lstrip(s))
    ELSE <<Head(s)>> \o collapse_ws(Tail(s))

\* lines 54-59
clean_text(t) == str_strip(collapse_ws(t))

\* lines 70-73: the cleaned lines that are not empty
RECURSIVE cleaned_lines(_)
cleaned_lines(lines) ==
    IF lines = <<>> THEN <<>>
    ELSE LET ln == str_strip(collapse_ws(Head(lines)))
         IN  (IF ln # <<>> THEN <<ln>> ELSE <<>>) \o cleaned_lines(Tail(lines))

\* lines 64-74
clean_text_keep_lines(t) == str_join(<<"\n">>, cleaned_lines(str_split(t, "\n")))

-----------------------------------------------------------------------------
(* Basic info: EMAIL_REGEX, PHONE_REGEX, extract_basic_info *)

Letters == Range(UpperLetters) \cup Range(LowerLetters)
DigitChars == Range(Digits)
\* [A-Za-z0-9._%+-]
EmailLocalChars == Letters \cup DigitChars \cup {".", "_", "%", "+", "-"}
\* [A-Za-z0-9.-]
EmailDomainChars == Letters \cup DigitChars \cup {".", "-"}
\* [\s\-]
PhoneSepChars == {" ", "\t", "\n", "\r", "\f", "-"}
\* [6-9]
PhoneFirstChars == {"6", "7", "8", "9"}

\* The index behind the longest run of characters of class cls that starts
\* at i (i itself when s[i] is not in cls): a greedy cls*.
RunEnd(s, i, cls) ==
    CHOOSE e \in i..(Len(s) + 1) :
        /\ \A k \in i..(e - 1) : s[k] \in cls
        /\ e = Len(s) + 1 \/ s[e] \notin cls

Max(S) == CHOOSE x \in S : \A y \in S : y <= x

\* lines 80-82: EMAIL_REGEX matched at i; the index behind the match, or 0.
\* The local part is the whole run in front of "@"; the greedy domain gives
\* back characters until a "." followed by two letters or more is found.
email_match_end(s, i) ==
    LET a == RunEnd(s, i, EmailLocalChars)
    IN  IF a = i \/ a > Len(s) THEN 0
        ELSE IF s[a] # "@" THEN 0
        ELSE LET e == RunEnd(s, a + 1, EmailDomainChars)
                 dots == { k \in (a + 2)..(e - 1) :
                             s[k] = "." /\ RunEnd(s, k + 1, Letters) >= k + 3 }
             IN  IF dots = {} THEN 0 ELSE RunEnd(s, Max(dots) + 1, Letters)

\* [6-9]\d{9} at i; the index behind it, or 0
phone_tail_end(s, i) ==
    IF /\ i + 9 <= Len(s)
       /\ s[i] \in PhoneFirstChars
       /\ \A k \in (i + 1)..(i + 9) : s[k] \in DigitChars
    THEN i + 10 ELSE 0

\* lines 86-88: PHONE_REGEX matched at i; the index behind the match, or 0.
\* The optional prefix +?91[\s\-]* is tried first, then the number alone.
phone_match_end(s, i) ==
    LET p == IF s[i] = "+" THEN i + 1 ELSE i
        withPrefix == IF MatchesAt(s, <<"9", "1">>, p)
                      THEN phone_tail_end(s, RunEnd(s, p + 2, PhoneSepChars))
                      ELSE 0
    IN  IF withPrefix # 0 THEN withPrefix ELSE phone_tail_end(s, i)

\* EMAIL_REGEX.findall(text): the matches from left to right, each search
\* starting behind the previous match
RECURSIVE findall_email(_, _)
findall_email(s, i) ==
    IF i > Len(s) THEN <<>>
    ELSE LET e == email_match_end(s, i)
         IN  IF e = 0 THEN findall_email(s, i + 1)
             ELSE <<SubSeq(s, i, e - 1)>> \o findall_email(s, e)

\* PHONE_REGEX.findall(text)
RECURSIVE findall_phone(_, _)
findall_phone(s, i) ==
    IF i > Len(s) THEN <<>>
    ELSE LET e == phone_match_end(s, i)
         IN  IF e = 0 THEN findall_phone(s, i + 1)
             ELSE <<SubSeq(s, i, e - 1)>> \o findall_phone(s, e)

S_NotFound == <<"N", "o", "t", " ", "f", "o", "u", "n", "d">>

\* The "all" list kept as found, duplicates included.
all_matches_NoDedup(found) == found

\* lines 98 and 103: list(dict.fromkeys(emails)), list(dict.fromkeys(phones))
all_matches(found) == dict_fromkeys(found)

\* lines 97 and 102: emails[0] if emails else "Not found"
primary_match(found) == IF found # <<>> THEN found[1] ELSE S_NotFound

\* lines 92-105
extract_basic_info(t) ==
    LET emails == findall_email(t, 1)
        phones == findall_phone(t, 1)
    IN  [email |-> primary_match(emails), emails |-> all_matches(emails),
         phone |-> primary_match(phones), phones |-> all_matches(phones)]

-----------------------------------------------------------------------------
(* Sections: EDU_KEYWORDS, EXP_KEYWORDS, extract_sections *)

\* lines 167-171
EDU_KEYWORDS ==
   << <<"e", "d", "u", "c", "a", "t", "i", "o", "n">>,
      <<"a", "c", "a", "d", "e", "m", "i", "c">>,
      <<"d", "e", "g", "r", "e", "e">>,
      <<"d", "e", "g", "r", "e", "e", "s">>,
      <<"c", "o", "l", "l", "e", "g", "e">>,
      <<"u", "n", "i", "v", "e", "r", "s", "i", "t", "y">>,
      <<"b", ".", "t", "e", "c", "h">>,
      <<"b", "t", "e", "c", "h">>,
      <<"b", ".", "e">>,
      <<"b", "e">>,
      <<"b", "a", "c", "h", "e", "l", "o", "r">>,
      <<"m", "a", "s", "t", "e", "r">>,
      <<"m", ".", "t", "e", "c", "h">>,
      <<"m", "t", "e", "c", "h">>,
      <<"b", "s", "c">>,
      <<"m", "s", "c">>,
      <<"d", "i", "p", "l", "o", "m", "a">> >>

\* lines 175-179
EXP_KEYWORDS ==
   << <<"e", "x", "p", "e", "r", "i", "e", "n", "c", "e">>,
      <<"w", "o", "r", "k", " ", "e", "x", "p", "e", "r", "i", "e", "n", "c", "e">>,
      <<"p", "r", "o", "f", "e", "s", "s", "i", "o", "n", "a", "l", " ",
        "e", "x", "p", "e", "r", "i", "e", "n", "c", "e">>,
      <<"e", "m", "p", "l", "o", "y", "m", "e", "n", "t">>,
      <<"i", "n", "t", "e", "r", "n", "s", "h", "i", "p">>,
      <<"i", "n", "t", "e", "r", "n">>,
      <<"c", "o", "m", "p", "a", "n", "y">>,
      <<"o", "r", "g", "a", "n", "i", "z", "a", "t", "i", "o", "n">>,
      <<"w", "o", "r", "k", "e", "d">>,
      <<"j", "o", "b">>,
      <<"r", "o", "l", "e">>,
      <<"p", "o", "s", "i", "t", "i", "o", "n">> >>

\* any(kw in lower for kw in keywords)
any_keyword_in(keywords, lower) == \E i \in DOMAIN keywords : str_in(keywords[i], lower)

\* line 193: [ln.strip() for ln in text.split("\n") if ln.strip()]
RECURSIVE stripped_lines(_)
stripped_lines(parts) ==
    IF parts = <<>> THEN <<>>
    ELSE LET ln == str_strip(Head(parts))
         IN  (IF ln # <<>> THEN <<ln>> ELSE <<>>) \o stripped_lines(Tail(parts))

\* The loop body without the continue of line 205: a line with keywords of
\* both kinds is appended to both lists.
section_step_NoContinue(acc, line) ==
    LET lower == str_lower(line)
        edu == any_keyword_in(EDU_KEYWORDS, lower)
        exp == any_keyword_in(EXP_KEYWORDS, lower)
    IN  IF Len(lower) < 3 THEN acc
        ELSE [education_lines |-> IF edu THEN Append(acc.education_lines, line)
                                  ELSE acc.education_lines,
              experience_lines |-> IF exp THEN Append(acc.experience_lines, line)
                                   ELSE acc.experience_lines]

\* lines 198-208: the loop body, on the two lists built so far
section_step(acc, line) ==
    LET lower == str_lower(line)
    IN  IF Len(lower) < 3 THEN acc
        ELSE IF any_keyword_in(EDU_KEYWORDS, lower)
        THEN [acc EXCEPT !.education_lines = Append(@, line)]
        ELSE IF any_keyword_in(EXP_KEYWORDS, lower)
        THEN [acc EXCEPT !.experience_lines = Append(@, line)]
        ELSE acc

\* lines 195-208: the loop over the lines
RECURSIVE classify_lines(_, _)
classify_lines(acc, lines) ==
    IF lines = <<>> THEN acc
    ELSE classify_lines(section_step(acc, Head(lines)), Tail(lines))

\* lines 210-217: dedup(seq), with its seen set and its out list
RECURSIVE dedup_from(_, _, _)
dedup_from(seq, seen, res) ==
    IF seq = <<>> THEN res
    ELSE IF Head(seq) \in seen THEN dedup_from(Tail(seq), seen, res)
    ELSE dedup_from(Tail(seq), seen \cup {Head(seq)}, Append(res, Head(seq)))

dedup(seq) == dedup_from(seq, {}, <<>>)

\* lines 183-219: the pair (education, experience)
extract_sections(t) ==
    LET lines == stripped_lines(str_split(t, "\n"))
        acc == classify_lines([education_lines |-> <<>>, experience_lines |-> <<>>], lines)
    IN  <<dedup(acc.education_lines), dedup(acc.experience_lines)>>

-----------------------------------------------------------------------------
(* Skills: SKILLS, build_skill_patterns, extract_skills *)

\* lines 111-123
SKILLS ==
   << <<"p","y","t","h","o","n">>,
      <<"j","a","v","a">>,
      <<"c">>,
      <<"c","+","+">>,
      <<"c","#">>,
      <<"j","a","v","a","s","c","r","i","p","t">>,
      <<"t","y","p","e","s","c","r","i","p","t">>,
      <<"p","h","p">>,
      <<"g","o">>,
      <<"r","u","b","y">>,
      <<"k","o","t","l","i","n">>,
      <<"s","w","i","f","t">>,
      <<"h","t","m","l">>,
      <<"c","s","s">>,
      <<"r","e","a","c","t">>,
      <<"a","n","g","u","l","a","r">>,
      <<"v","u","e">>,
      <<"n","o","d","e",".","j","s">>,
      <<"d","j","a","n","g","o">>,
      <<"f","l","a","s","k">>,
      <<"s","q","l">>,
      <<"m","y","s","q","l">>,
      <<"p","o","s","t","g","r","e","s","q","l">>,
      <<"m","o","n","g","o","d","b">>,
      <<"p","a","n","d","a","s">>,
      <<"n","u","m","p","y">>,
      <<"m","a","c","h","i","n","e"," ","l","e","a","r","n","i","n","g">>,
      <<"d","e","e","p"," ","l","e","a","r","n","i","n","g">>,
      <<"d","a","t","a"," ","a","n","a","l","y","s","i","s">>,
      <<"d","a","t","a"," ","s","c","i","e","n","c","e">>,
      <<"t","e","n","s","o","r","f","l","o","w">>,
      <<"p","y","t","o","r","c","h">>,
      <<"s","c","i","k","i","t","-","l","e","a","r","n">>,
      <<"e","x","c","e","l">>,
      <<"g","i","t">>,
      <<"d","o","c","k","e","r">>,
      <<"k","u","b","e","r","n","e","t","e","s">>,
      <<"l","i","n","u","x">> >>

\* \b at the gap in front of t[i] (i = Len(t) + 1: at the end): exactly one
\* of the two neighbours is a word character
IsWordAt(t, k) == k \in DOMAIN t /\ IsWordChar(t[k])
word_boundary(t, i) == IsWordAt(t, i - 1) # IsWordAt(t, i)

\* lines 132/135 and 153/158: re.compile(r"\b" + re.escape(s) + r"\b",
\* re.IGNORECASE).search(text): s occurs, in any letter case, between two
\* word boundaries
pattern_search(s, t) ==
    LET low == str_lower(t)
    IN  \E i \in 1..(Len(t) - Len(s) + 1) :
            /\ MatchesAt(low, str_lower(s), i)
            /\ word_boundary(t, i)
            /\ word_boundary(t, i + Len(s))

\* lines 127-137: build_skill_patterns(skills), its two lists
IsMultiWord(s) == \E i \in DOMAIN s : s[i] = " "
MULTIWORD_SKILLS == SelectSeq(SKILLS, IsMultiWord)
IsSingleWord(s) == ~IsMultiWord(s)
SINGLEWORD_SKILLS == SelectSeq(SKILLS, IsSingleWord)

\* lines 152-154 and 157-159: one loop over a list of patterns, adding to found
RECURSIVE scan_skills(_, _, _)
scan_skills(patterns, t, found) ==
    IF patterns = <<>> THEN found
    ELSE scan_skills(Tail(patterns), t,
                     IF pattern_search(Head(patterns), t)
                     THEN found \cup {Head(patterns)} ELSE found)

\* The characters in code point order, for the comparison of strings.
CharOrder == <<"\t", "\n", "\f", "\r", " ", "!", "#", "%", "+", ",", "-", ".", "/", ":">>
             \o Digits \o <<"@">> \o UpperLetters \o <<"_">> \o LowerLetters
char_code(c) == CHOOSE i \in DOMAIN CharOrder : CharOrder[i] = c

\* a <= b for two strings
RECURSIVE str_le(_, _)
str_le(a, b) ==
    IF a = <<>> THEN TRUE
    ELSE IF b = <<>> THEN FALSE
    ELSE IF Head(a) = Head(b) THEN str_le(Tail(a), Tail(b))
    ELSE char_code(Head(a)) < char_code(Head(b))

\* The found skills in the order of the vocabulary list.
sorted_skills_VocabularyOrder(found) == LET In(s) == s \in found IN SelectSeq(SKILLS, In)

\* line 161: sorted(found, key=str.lower)
RECURSIVE sorted_skills(_)
sorted_skills(found) ==
    IF found = {} THEN <<>>
    ELSE LET m == CHOOSE x \in found :
                      \A y \in found : str_le(str_lower(x), str_lower(y))
         IN  <<m>> \o sorted_skills(found \ {m})

\* lines 145-161
extract_skills(t) ==
    sorted_skills(scan_skills(SINGLEWORD_SKILLS, t, scan_skills(MULTIWORD_SKILLS, t, {})))

-----------------------------------------------------------------------------
(* The document reader: read_pdf, read_docx, read_resume *)

S_PdfError == <<"P", "D", "F", " ", "e", "r", "r", "o", "r", ":">>
S_DocxError == <<"D", "O", "C", "X", " ", "e", "r", "r", "o", "r", ":">>
S_Unsupported == <<"U", "n", "s", "u", "p", "p", "o", "r", "t", "e", "d">>
S_UnsupportedFileType ==
    <<"U", "n", "s", "u", "p", "p", "o", "r", "t", "e", "d", " ",
      "f", "i", "l", "e", " ", "t", "y", "p", "e", "!">>
S_ExtPdf == <<".", "p", "d", "f">>
S_ExtDocx == <<".", "d", "o", "c", "x">>

\* A file as the reader meets it: whether it exists, whether the decoder
\* (fitz, python-docx) reads it or raises with a message, and what it holds:
\* the page texts of a PDF or the paragraph texts of a DOCX (parts), and the
\* rows of cell texts of the DOCX tables (rows).

\* text += page.get_text("text") + "\n", page by page
RECURSIVE concat_pages(_)
concat_pages(pages) ==
    IF pages = <<>> THEN <<>> ELSE Head(pages) \o <<"\n">> \o concat_pages(Tail(pages))

\* lines 12-21
read_pdf(doc) ==
    IF doc.readable THEN concat_pages(doc.parts)
    ELSE S_PdfError \o <<" ">> \o doc.message

\* para.text for para in doc.paragraphs if para.text.strip()
RECURSIVE nonblank(_)
nonblank(paras) ==
    IF paras = <<>> THEN <<>>
    ELSE (IF str_strip(Head(paras)) # <<>> THEN <<Head(paras)>> ELSE <<>>)
         \o nonblank(Tail(paras))

\* lines 30-32: text += " " + " ".join(cell.text for cell in row.cells), row by row
RECURSIVE concat_rows(_)
concat_rows(rows) ==
    IF rows = <<>> THEN <<>>
    ELSE <<" ">> \o str_join(<<" ">>, Head(rows)) \o concat_rows(Tail(rows))

\* lines 26-35
read_docx(doc) ==
    IF doc.readable THEN str_join(<<"\n">>, nonblank(doc.parts)) \o concat_rows(doc.rows)
    ELSE S_DocxError \o <<" ">> \o doc.message

\* s.rfind(c), counted from 1 (0: not found)
rfind(s, c) == Max({0} \cup {i \in DOMAIN s : s[i] = c})

\* os.path.splitext(file_path)[1]: from the last dot of the last path
\* component, unless only dots precede it there
splitext_ext(path) ==
    LET sepIndex == rfind(path, "/")
        dotIndex == rfind(path, ".")
    IN  IF dotIndex > sepIndex /\ \E k \in (sepIndex + 1)..(dotIndex - 1) : path[k] # "."
        THEN SubSeq(path, dotIndex, Len(path))
        ELSE <<>>

\* lines 40-48
read_resume(path, doc) ==
    IF ~doc.exists THEN S_FileNotFound
    ELSE LET ext == str_lower(splitext_ext(path))
         IN  IF ext = S_ExtPdf THEN read_pdf(doc)
             ELSE IF ext = S_ExtDocx THEN read_docx(doc)
             ELSE S_UnsupportedFileType

-----------------------------------------------------------------------------
(* parse_resume *)

\* The test of line 229 without the "DOCX error:" prefix.
is_error_text_NoDocx(t) ==
    \/ startswith(t, S_PdfError)
    \/ startswith(t, S_FileNotFound)
    \/ startswith(t, S_Unsupported)

\* line 229: raw_text.startswith(("PDF error:", "DOCX error:",
\* "File not found!", "Unsupported"))
is_error_text(t) ==
    \/ startswith(t, S_PdfError)
    \/ startswith(t, S_DocxError)
    \/ startswith(t, S_FileNotFound)
    \/ startswith(t, S_Unsupported)

\* lines 233-258: the record of a text that passed the test of line 229
build_parsed_data(raw) ==
    LET cleaned_text == clean_text(raw)
        cleaned_for_sections == clean_text_keep_lines(raw)
        basic_info == extract_basic_info(cleaned_text)
        skills == extract_skills(cleaned_text)
        sections == extract_sections(cleaned_for_sections)
    IN  [contact |-> [email |-> basic_info.email,
                      phone |-> basic_info.phone,
                      all_emails |-> basic_info.emails,
                      all_phones |-> basic_info.phones],
         skills |-> skills,
         education |-> sections[1],
         experience |-> sections[2],
         summary |-> [total_skills_found |-> Len(skills),
                      education_lines |-> Len(sections[1]),
                      experience_lines |-> Len(sections[2]),
                      raw_text_length |-> Len(raw)]]

\* lines 229-260, on the text read_resume returned
parse_text(raw) ==
    IF is_error_text(raw) THEN [error |-> raw, parsed_data |-> EmptyDict]
    ELSE build_parsed_data(raw)

-----------------------------------------------------------------------------
(* The exports: save_to_csv, save_search_to_csv *)

\* s.replace(old, new): every occurrence of old, from the left
RECURSIVE str_replace(_, _, _)
str_replace(s, old, new) ==
    IF s = <<>> THEN <<>>
    ELSE IF MatchesAt(s, old, 1)
    THEN new \o str_replace(SubSeq(s, Len(old) + 1, Len(s)), old, new)
    ELSE <<Head(s)>> \o str_replace(Tail(s), old, new)

\* The date and time at which the clock starts.
ClockBase == [year |-> 2026, month |-> 1, day |-> 1, hour |-> 9, minute |-> 59, second |-> 58]

\* datetime.now(), t seconds after ClockBase (within the same day)
datetime_now(t) ==
    LET total == ClockBase.hour * 3600 + ClockBase.minute * 60 + ClockBase.second + t
    IN  [year |-> ClockBase.year, month |-> ClockBase.month, day |-> ClockBase.day,
         hour |-> total \div 3600, minute |-> (total \div 60) % 60, second |-> total % 60]

\* n in decimal, zero-padded to width digits
RECURSIVE zero_padded(_, _)
zero_padded(n, width) ==
    IF width = 0 THEN <<>>
    ELSE Append(zero_padded(n \div 10, width - 1), Digits[(n % 10) + 1])

\* lines 310 and 347: .strftime("%Y%m%d_%H%M%S")
strftime(dt) ==
    zero_padded(dt.year, 4) \o zero_padded(dt.month, 2) \o zero_padded(dt.day, 2)
    \o <<"_">>
    \o zero_padded(dt.hour, 2) \o zero_padded(dt.minute, 2) \o zero_padded(dt.second, 2)

S_DotCsv == <<".", "c", "s", "v">>

\* lines 311 and 348: filename.replace('.csv', f'_{timestamp}.csv')
safe_filename(filename, t) ==
    str_replace(filename, S_DotCsv, <<"_">> \o strftime(datetime_now(t)) \o S_DotCsv)

\* line 274: [r for r in results if "error" not in r]
RECURSIVE valid_results(_)
valid_results(results) ==
    IF results = <<>> THEN <<>>
    ELSE (IF "error" \notin DOMAIN Head(results) THEN <<Head(results)>> ELSE <<>>)
         \o valid_results(Tail(results))

\* line 302: ', '.join(skills[:5]) + ('...' if len(skills) > 5 else '')
skills_list(skills) ==
    str_join(<<",", " ">>, SubSeq(skills, 1, IF Len(skills) < 5 THEN Len(skills) ELSE 5))
    \o (IF Len(skills) > 5 THEN <<".", ".", ".">> ELSE <<>>)

\* lines 296-306: the row of one valid record
csv_row(resume) ==
    [file_name |-> resume.file_info.name,
     file_size_kb |-> resume.file_info.size_kb,
     email |-> resume.contact.email,
     phone |-> resume.contact.phone,
     total_skills |-> resume.summary.total_skills_found,
     skills_list |-> skills_list(resume.skills),
     education_lines |-> resume.summary.education_lines,
     experience_lines |-> resume.summary.experience_lines,
     raw_text_length |-> resume.summary.raw_text_length]

\* line 341: ', '.join([m['skill'] for m in result.get('matched_skills', [])])
matched_skill_names(result) ==
    str_join(<<",", " ">>, [i \in DOMAIN result.matched_skills |-> result.matched_skills[i].skill])

\* lines 338-344: the row of one search result
search_csv_row(result) ==
    [file_name |-> result.name,
     file_size_kb |-> result.size_kb,
     matched_skills |-> matched_skill_names(result),
     match_count |-> result.match_count,
     total_skills |-> result.total_skills]

\* open(path, "w") followed by the writer's calls: the file at path now
\* holds exactly rows, whatever it held before
write_file(files, path, rows) ==
    {f \in files : f.path # path} \cup {[path |-> path, rows |-> rows]}

\* lines 262-325: the path save_to_csv writes (it returns it), or <<>> when it
\* returns None without writing
save_to_csv_path(results, filename, t, io_ok) ==
    IF results = <<>> THEN <<>>
    ELSE IF valid_results(results) = <<>> THEN <<>>
    ELSE IF ~io_ok THEN <<>>
    ELSE safe_filename(filename, t)

\* lines 328-356: the path save_search_to_csv writes, or <<>> when it writes
\* nothing (no results, or open() raised)
save_search_to_csv_path(search_results, filename, t, io_ok) ==
    IF search_results = <<>> THEN <<>>
    ELSE IF ~io_ok THEN <<>>
    ELSE safe_filename(filename, t)

-----------------------------------------------------------------------------
(* The search specification: a collection is given, queries are run on it *)

MaxResumes == 3

S_java == <<"j", "a", "v", "a">>
S_javascript == <<"j", "a", "v", "a", "s", "c", "r", "i", "p", "t">>
S_c == <<"c">>
S_python == <<"p", "y", "t", "h", "o", "n">>
S_Python == <<"P", "y", "t", "h", "o", "n">>
S_SQL == <<"S", "Q", "L">>
S_py == <<"p", "y">>
S_JavaSpace == <<"J", "a", "v", "a", " ">>
S_Space == <<" ">>

\* The skills lists of the records of the collection.
SkillLists ==
    { <<>>, <<S_java>>, <<S_java, S_javascript>>, <<S_c, S_java, S_javascript>>,
      <<S_python>>, <<S_Python, S_SQL>> }

\* The queries typed into the search box (the last one is the empty string).
Queries == { S_py, S_python, S_JavaSpace, S_javascript, S_c, S_Space, <<>> }

\* lines 463-466: result["file_info"] = {"name": ..., "size_kb": ...}
FileInfo(i) == [name |-> "cv" \o ToString(i) \o ".pdf", size_kb |-> i]

\* A record of the collection at position i: a parsed one (the fields the
\* search reads), a failed one as parse_resume builds it (line 230), or a
\* failed one that still carries a skills list.
ResumeOf(i, shape) ==
    IF shape.kind = "ok"
    THEN [file_info |-> FileInfo(i), skills |-> shape.skills]
    ELSE IF shape.kind = "error"
    THEN [error |-> S_FileNotFound, parsed_data |-> EmptyDict, file_info |-> FileInfo(i)]
    ELSE [error |-> S_FileNotFound, parsed_data |-> EmptyDict, file_info |-> FileInfo(i),
          skills |-> shape.skills]

Shapes ==
    [kind : {"ok"}, skills : SkillLists]
    \cup {[kind |-> "error", skills |-> <<>>],
          [kind |-> "error_leftover", skills |-> <<S_c, S_java, S_javascript>>]}

Collections ==
    UNION { { [i \in 1..n |-> ResumeOf(i, f[i])] : f \in [1..n -> Shapes] } : n \in 0..MaxResumes }

\* The values of the variables an operation does not use.
IdleExtract == pc = "input" /\ text = <<>> /\ out = None
IdleSearch ==
    /\ resumes = <<>> /\ skill = None /\ case_sensitive = FALSE
    /\ partial_match = TRUE /\ matched = <<>>
IdleParse == file_path = None /\ raw_text = None /\ document = None /\ record = None
IdleExport == now = 0 /\ disk = {} /\ writes = <<>>

SearchInit ==
    /\ pc = "input" /\ text = <<>> /\ out = None
    /\ resumes \in Collections
    /\ skill = None /\ case_sensitive = FALSE /\ partial_match = TRUE /\ matched = <<>>
    /\ IdleParse /\ IdleExport

\* One call of search_by_skill (lines 361-415) on the collection.
Search ==
    \E q \in Queries, cs \in BOOLEAN, pm \in BOOLEAN :
        /\ pc = "input"
        /\ skill' = q
        /\ case_sensitive' = cs
        /\ partial_match' = pm
        /\ matched' = search_by_skill(resumes, q, cs, pm)
        /\ pc' = "searched"
        /\ UNCHANGED <<text, out, resumes, file_path, raw_text, document, record,
                       now, disk, writes>>

SearchNext == Search

SpecSearch == SearchInit /\ [][SearchNext]_vars

\* The position in the collection of the record a result entry was built from.
SourceIndex(e) == CHOOSE k \in DOMAIN resumes : resumes[k].file_info.name = e.name

\* C1: the result of search_by_skill is ordered by non-increasing match_count,
\* and entries with equal match_count keep the relative order their records
\* have in the input collection.
C1_SortedStable ==
    pc = "searched" =>
        \A i \in DOMAIN matched : \A j \in DOMAIN matched :
            i < j =>
                /\ matched[i].match_count >= matched[j].match_count
                /\ matched[i].match_count = matched[j].match_count
                       => SourceIndex(matched[i]) < SourceIndex(matched[j])

\* A search whose result holds a tie and also an entry moved in front of a
\* record that precedes it in the collection.
C1_Witness ==
    /\ pc = "searched"
    /\ \E i \in DOMAIN matched : \E j \in DOMAIN matched :
          i < j /\ matched[i].match_count = matched[j].match_count
    /\ \E i \in DOMAIN matched : \E j \in DOMAIN matched :
          i < j /\ SourceIndex(matched[i]) > SourceIndex(matched[j])

\* The normalized query and the kind the claim gives a reported skill.
QueryNorm == IF case_sensitive THEN skill ELSE str_strip(str_lower(skill))
SkillNorm(s) == IF case_sensitive THEN s ELSE str_lower(s)
Reported(k, s) ==
    \E e \in Range(matched) :
        /\ e.name = resumes[k].file_info.name
        /\ \E m \in Range(e.matched_skills) : m.skill = s
ReportedKind(k, s) ==
    LET e == CHOOSE x \in Range(matched) : x.name = resumes[k].file_info.name
        m == CHOOSE x \in Range(e.matched_skills) : x.skill = s
    IN  m.match_type

\* C2: once the query has been normalized (the query as given is not empty),
\* a skill s of a non-error record is reported exactly when, with
\* partial_match, q is a substring of s or s of q, its kind being "partial"
\* when len(q) < len(s) and "exact" otherwise; without partial_match, exactly
\* when q = s, its kind being "exact".
C2_MatchRule ==
    (pc = "searched" /\ skill # <<>>) =>
        \A k \in DOMAIN resumes :
            "error" \notin DOMAIN resumes[k] =>
                \A s \in Range(resumes[k].skills) :
                    LET q == QueryNorm
                        n == SkillNorm(s)
                    IN  IF partial_match
                        THEN /\ Reported(k, s) <=> (str_in(q, n) \/ str_in(n, q))
                             /\ Reported(k, s) =>
                                   ReportedKind(k, s) =
                                       (IF Len(q) < Len(n) THEN "partial" ELSE "exact")
                        ELSE /\ Reported(k, s) <=> (q = n)
                             /\ Reported(k, s) => ReportedKind(k, s) = "exact"

\* A partial-match search for "javascript" over a record with the skills
\* "java" (contained in the query, shorter than it) and "javascript": both
\* are reported, as "exact".
C2_Witness ==
    /\ pc = "searched" /\ partial_match /\ skill = S_javascript
    /\ \E k \in DOMAIN resumes :
          /\ "error" \notin DOMAIN resumes[k]
          /\ S_java \in Range(resumes[k].skills)
          /\ S_javascript \in Range(resumes[k].skills)
          /\ Reported(k, S_java) /\ ReportedKind(k, S_java) = "exact"
          /\ Reported(k, S_javascript) /\ ReportedKind(k, S_javascript) = "exact"

\* C3: no record that carries an error appears in the result.
C3_ErrorRecordsExcluded ==
    pc = "searched" =>
        \A e \in Range(matched) : "error" \notin DOMAIN resumes[SourceIndex(e)]

\* A search with a non-empty result over a collection that holds an error
\* record whose leftover skills match the query.
C3_Witness ==
    /\ pc = "searched" /\ matched # <<>>
    /\ \E k \in DOMAIN resumes :
          /\ "error" \in DOMAIN resumes[k]
          /\ "skills" \in DOMAIN resumes[k]
          /\ match_skills(QueryNorm, resumes[k].skills, case_sensitive, partial_match) # <<>>

\* C11: with case_sensitive false, a query that is empty after lower-casing
\* and trimming (a query of whitespace only) gives an empty result, whatever
\* the collection and partial_match: no skill is matched on an empty query.
C11_EmptyNormalizedQueryNoResult ==
    (pc = "searched" /\ ~case_sensitive /\ str_strip(str_lower(skill)) = <<>>)
        => matched = <<>>

-----------------------------------------------------------------------------
(* The contact specification: extract_basic_info applied to a flat text *)

MaxTokens == 3

\* All the sequences of at most n elements of pool, joined by sep.
JoinedTexts(pool, n, sep) ==
    UNION { { str_join(sep, f) : f \in [1..m -> pool] } : m \in 0..n }

InfoTokens ==
    { <<"a", "@", "b", ".", "i", "o">>,
      <<"A", "@", "b", ".", "i", "o">>,
      <<"m", "e", "@", "x">>,
      <<"9", "8", "7", "6", "5", "4", "3", "2", "1", "0">>,
      <<"+", "9", "1", "-", "9", "8", "7", "6", "5", "4", "3", "2", "1", "0">>,
      <<"5", "8", "7", "6", "5", "4", "3", "2", "1", "0">>,
      <<"9", "1">> }

InfoTexts == JoinedTexts(InfoTokens, MaxTokens, <<" ">>)

BasicInfoInit ==
    /\ pc = "input" /\ text \in InfoTexts /\ out = None
    /\ IdleSearch /\ IdleParse /\ IdleExport

\* One call of extract_basic_info (lines 92-105).
ExtractBasicInfo ==
    /\ pc = "input"
    /\ out' = extract_basic_info(text)
    /\ pc' = "basic_info"
    /\ UNCHANGED <<text, resumes, skill, case_sensitive, partial_match, matched,
                   file_path, raw_text, document, record, now, disk, writes>>

BasicInfoNext == ExtractBasicInfo

SpecBasicInfo == BasicInfoInit /\ [][BasicInfoNext]_vars

NoDuplicates(seq) == \A i \in DOMAIN seq : \A j \in DOMAIN seq : seq[i] = seq[j] => i = j

FirstIndex(seq, x) == CHOOSE i \in DOMAIN seq : seq[i] = x /\ \A j \in 1..(i - 1) : seq[j] # x

\* lst holds exactly the distinct elements of src, in the order of their
\* first occurrences in src.
DistinctInFirstOrder(lst, src) ==
    /\ NoDuplicates(lst)
    /\ Range(lst) = Range(src)
    /\ \A i \in DOMAIN lst : \A j \in DOMAIN lst :
          i < j => FirstIndex(src, lst[i]) < FirstIndex(src, lst[j])

\* C6: the "emails" and "phones" lists hold no duplicates and list the
\* distinct matches in order of first occurrence in the text; the primary
\* "email" ("phone") is the first element of its list, or "Not found" when
\* the list is empty.
C6_ContactLists ==
    pc = "basic_info" =>
        /\ DistinctInFirstOrder(out.emails, findall_email(text, 1))
        /\ DistinctInFirstOrder(out.phones, findall_phone(text, 1))
        /\ out.email = (IF out.emails # <<>> THEN out.emails[1] ELSE S_NotFound)
        /\ out.phone = (IF out.phones # <<>> THEN out.phones[1] ELSE S_NotFound)

\* A text in which one address occurs twice and another one once, and no
\* phone number occurs.
C6_Witness ==
    /\ pc = "basic_info"
    /\ Len(findall_email(text, 1)) = 3
    /\ Len(out.emails) = 2
    /\ out.phones = <<>> /\ out.phone = S_NotFound

-----------------------------------------------------------------------------
(* The section specification: extract_sections applied to a text of lines *)

MaxLines == 3

SectionLinePool ==
    { <<"B", "S", "c">>,
      <<"I", "n", "t", "e", "r", "n">>,
      <<" ", "I", "n", "t", "e", "r", "n", " ", " ">>,
      <<"C", "o", "l", "l", "e", "g", "e", " ", "j", "o", "b">>,
      <<"b", "e">>,
      <<"S", "k", "i", "l", "l", "s">>,
      <<>> }

SectionTexts == JoinedTexts(SectionLinePool, MaxLines, <<"\n">>)

SectionsInit ==
    /\ pc = "input" /\ text \in SectionTexts /\ out = None
    /\ IdleSearch /\ IdleParse /\ IdleExport

\* One call of extract_sections (lines 183-219).
ExtractSections ==
    /\ pc = "input"
    /\ out' = extract_sections(text)
    /\ pc' = "sections"
    /\ UNCHANGED <<text, resumes, skill, case_sensitive, partial_match, matched,
                   file_path, raw_text, document, record, now, disk, writes>>

SectionsNext == ExtractSections

SpecSections == SectionsInit /\ [][SectionsNext]_vars

\* The non-blank lines of the input, stripped.
InputLines == stripped_lines(str_split(text, "\n"))

HasKeyword(keywords, line) ==
    \E i \in DOMAIN keywords : str_in(keywords[i], str_lower(line))

\* lst is duplicate-free and keeps its lines in the order of their first
\* occurrences among the lines of the input.
InInputOrder(lst) ==
    /\ NoDuplicates(lst)
    /\ Range(lst) \subseteq Range(InputLines)
    /\ \A i \in DOMAIN lst : \A j \in DOMAIN lst :
          i < j => FirstIndex(InputLines, lst[i]) < FirstIndex(InputLines, lst[j])

\* C5: the two lists extract_sections returns are disjoint; a line of at least
\* 3 characters with an education keyword and an experience keyword is in the
\* education list only; each list is duplicate-free and in order of first
\* occurrence in the input.
C5_SectionsPartition ==
    pc = "sections" =>
        /\ Range(out[1]) \cap Range(out[2]) = {}
        /\ \A line \in Range(InputLines) :
              (Len(line) >= 3 /\ HasKeyword(EDU_KEYWORDS, line) /\ HasKeyword(EXP_KEYWORDS, line))
                  => (line \in Range(out[1]) /\ line \notin Range(out[2]))
        /\ InInputOrder(out[1])
        /\ InInputOrder(out[2])

\* A text with a line of both kinds, and an experience line that occurs twice.
C5_Witness ==
    /\ pc = "sections"
    /\ \E line \in Range(InputLines) :
          Len(line) >= 3 /\ HasKeyword(EDU_KEYWORDS, line) /\ HasKeyword(EXP_KEYWORDS, line)
    /\ \E i \in DOMAIN InputLines : \E j \in DOMAIN InputLines :
          i < j /\ InputLines[i] = InputLines[j] /\ InputLines[i] \in Range(out[2])

-----------------------------------------------------------------------------
(* The skill specification: extract_skills applied to a flat text *)

MaxWords == 3

SkillTokens ==
    { <<"c", "+", "+">>,
      <<"C", "#">>,
      <<"G", "i", "t", ",">>,
      <<"m", "a", "c", "h", "i", "n", "e">>,
      <<"L", "e", "a", "r", "n", "i", "n", "g">>,
      <<"n", "o", "d", "e", ".", "j", "s">> }

SkillTexts == JoinedTexts(SkillTokens, MaxWords, <<" ">>)

SkillsInit ==
    /\ pc = "input" /\ text \in SkillTexts /\ out = None
    /\ IdleSearch /\ IdleParse /\ IdleExport

\* One call of extract_skills (lines 145-161).
ExtractSkills ==
    /\ pc = "input"
    /\ out' = extract_skills(text)
    /\ pc' = "skills"
    /\ UNCHANGED <<text, resumes, skill, case_sensitive, partial_match, matched,
                   file_path, raw_text, document, record, now, disk, writes>>

SkillsNext == ExtractSkills

SpecSkills == SkillsInit /\ [][SkillsNext]_vars

\* C7: the list extract_skills returns holds only entries of SKILLS, holds no
\* duplicates and is sorted in case-insensitive ascending order; checking the
\* single-word entries before the multi-word ones gives the same list.
C7_SkillList ==
    pc = "skills" =>
        /\ Range(out) \subseteq Range(SKILLS)
        /\ NoDuplicates(out)
        /\ \A i \in DOMAIN out : \A j \in DOMAIN out :
              i < j => str_le(str_lower(out[i]), str_lower(out[j]))
        /\ out = sorted_skills(scan_skills(MULTIWORD_SKILLS, text,
                                           scan_skills(SINGLEWORD_SKILLS, text, {})))

\* A text with a multi-word and a single-word skill, returned in another
\* order than the one of the vocabulary list.
C7_Witness ==
    /\ pc = "skills"
    /\ Len(out) >= 2
    /\ out # sorted_skills_VocabularyOrder(Range(out))
    /\ \E i \in DOMAIN out : IsMultiWord(out[i])
    /\ \E i \in DOMAIN out : ~IsMultiWord(out[i])

\* s occurs in t, in any letter case, with whitespace or an end of the text
\* on both sides.
DelimitedOccurrence(s, t) ==
    \E i \in 1..(Len(t) - Len(s) + 1) :
        /\ MatchesAt(str_lower(t), s, i)
        /\ i = 1 \/ IsSpace(t[i - 1])
        /\ i + Len(s) = Len(t) + 1 \/ IsSpace(t[i + Len(s)])

\* C9: every entry of SKILLS (c++ and c# included) that occurs in the text as
\* a whole word or phrase delimited by whitespace or the ends of the text is
\* in the result of extract_skills.
C9_DelimitedSkillFound ==
    pc = "skills" =>
        \A k \in DOMAIN SKILLS :
            DelimitedOccurrence(SKILLS[k], text) => SKILLS[k] \in Range(out)

-----------------------------------------------------------------------------
(* The parse specification: parse_resume applied to a path and the file there *)

MaxParts == 2

Paths ==
    { <<"t", "/", "c", "v", ".", "p", "d", "f">>,
      <<"t", "/", "c", "v", ".", "P", "D", "F">>,
      <<"t", "/", "c", "v", ".", "d", "o", "c", "x">>,
      <<"t", "/", "c", "v", ".", "t", "x", "t">>,
      <<"t", "/", ".", "p", "d", "f">> }

\* Page or paragraph texts.
PartPool ==
    { <<"U", "n", "s", "u", "p", "p", "o", "r", "t", "e", "d", " ", "O", "S">>,
      <<"P", "D", "F", " ", "e", "r", "r", "o", "r", ":", " ", "x">>,
      <<"a", "@", "b", ".", "i", "o", " ", "G", "i", "t">>,
      <<"B", "S", "c", "\n", "I", "n", "t", "e", "r", "n">>,
      <<>> }

\* The rows of the tables of a DOCX: none, or one row of two cells.
RowsPool == { <<>>, << <<<<"C", "#">>, <<"9", "8", "7", "6", "5", "4", "3", "2", "1", "0">>>> >> }

\* The messages of the exceptions the decoders raise.
Messages == { <<>>, <<"b", "a", "d">> }

Documents ==
    {[exists |-> FALSE, readable |-> FALSE, message |-> <<>>, parts |-> <<>>, rows |-> <<>>]}
    \cup {[exists |-> TRUE, readable |-> FALSE, message |-> m, parts |-> <<>>, rows |-> <<>>] :
             m \in Messages}
    \cup UNION { {[exists |-> TRUE, readable |-> TRUE, message |-> <<>>, parts |-> ps, rows |-> rw] :
                    ps \in [1..n -> PartPool], rw \in RowsPool} : n \in 0..MaxParts }

ParseInit ==
    /\ IdleExtract /\ IdleSearch /\ IdleExport
    /\ file_path \in Paths
    /\ document \in Documents
    /\ raw_text = None
    /\ record = None

\* One call of parse_resume (lines 223-260).
ParseResume ==
    /\ pc = "input"
    /\ raw_text' = read_resume(file_path, document)
    /\ record' = parse_text(read_resume(file_path, document))
    /\ pc' = "parsed"
    /\ UNCHANGED <<text, out, resumes, skill, case_sensitive, partial_match, matched,
                   file_path, document, now, disk, writes>>

ParseNext == ParseResume

SpecParse == ParseInit /\ [][ParseNext]_vars

\* The reader's error sentinels: the two fixed texts and the two formats'
\* read errors.
IsErrorSentinel(t) ==
    \/ t = S_FileNotFound
    \/ t = S_UnsupportedFileType
    \/ startswith(t, S_PdfError \o <<" ">>)
    \/ startswith(t, S_DocxError \o <<" ">>)

\* The reader extracted the document's text: the file exists, has one of the
\* two supported extensions and the decoder read it.
ReadSucceeded ==
    /\ document.exists
    /\ document.readable
    /\ str_lower(splitext_ext(file_path)) \in {S_ExtPdf, S_ExtDocx}

ExtractedFields == {"contact", "skills", "education", "experience", "summary"}

\* C4: when the text the reader returned is one of the error sentinels, the
\* record parse_resume returns has its error field equal to that text, an
\* empty parsed_data, and no contact, skills, education, experience or
\* summary field.
C4_ErrorRecordOnly ==
    (pc = "parsed" /\ IsErrorSentinel(raw_text)) =>
        /\ "error" \in DOMAIN record
        /\ record.error = raw_text
        /\ DOMAIN record \cap ExtractedFields = {}
        /\ DOMAIN record = {"error", "parsed_data"}
        /\ record.parsed_data = EmptyDict

\* A DOCX the decoder could not read has been parsed.
C4_Witness ==
    /\ pc = "parsed"
    /\ document.exists /\ ~document.readable
    /\ startswith(raw_text, S_DocxError)
    /\ IsErrorSentinel(raw_text)
    /\ record.error = raw_text

\* C10: whenever the reader extracted the document's text, whatever the text,
\* the record has no error field and carries the contact, skills, education,
\* experience and summary fields.
C10_ErrorOnlyWhenReadFailed ==
    (pc = "parsed" /\ ReadSucceeded) =>
        /\ "error" \notin DOMAIN record
        /\ ExtractedFields \subseteq DOMAIN record

-----------------------------------------------------------------------------
(* The export specification: exports run while the clock advances *)

MaxClock == 2
MaxExports == 2

S_ResumeResultsCsv ==
    <<"r", "e", "s", "u", "m", "e", "_", "r", "e", "s", "u", "l", "t", "s", ".", "c", "s", "v">>
S_SkillSearchResultsCsv ==
    <<"s", "k", "i", "l", "l", "_", "s", "e", "a", "r", "c", "h", "_",
      "r", "e", "s", "u", "l", "t", "s", ".", "c", "s", "v">>

\* The filename arguments: the two defaults (lines 262 and 328).
Filenames == { S_ResumeResultsCsv, S_SkillSearchResultsCsv }

\* lines 460-468: a parsed record with its file_info
ParsedRecord(i, raw) ==
    LET r == parse_text(raw)
    IN  [k \in DOMAIN r \cup {"file_info"} |-> IF k = "file_info" THEN FileInfo(i) ELSE r[k]]

ExportResumeA == ParsedRecord(1, <<"a", "@", "b", ".", "i", "o", " ", "G", "i", "t">>)
ExportResumeB == ParsedRecord(1, <<"C", "#", " ", "9", "8", "7", "6", "5", "4", "3", "2", "1", "0">>)
ExportResumeFailed == ParsedRecord(2, S_FileNotFound)

\* The collections handed to save_to_csv.
ExportCollections ==
    { <<>>, <<ExportResumeFailed>>, <<ExportResumeA, ExportResumeFailed>>, <<ExportResumeB>> }

\* The result lists handed to save_search_to_csv.
ExportSearches ==
    { <<>>,
      search_by_skill(<<ExportResumeA, ExportResumeFailed>>, <<"g", "i", "t">>, FALSE, TRUE),
      search_by_skill(<<ExportResumeB>>, <<"c">>, FALSE, TRUE) }

ExportInit ==
    /\ IdleExtract /\ IdleSearch /\ IdleParse
    /\ now = 0 /\ disk = {} /\ writes = <<>>

\* A second passes.
Tick ==
    /\ now < MaxClock
    /\ now' = now + 1
    /\ UNCHANGED <<pc, text, out, resumes, skill, case_sensitive, partial_match, matched,
                   file_path, raw_text, document, record, disk, writes>>

\* One call of save_to_csv (lines 262-325).
SaveToCsv ==
    \E results \in ExportCollections, filename \in Filenames, io_ok \in BOOLEAN :
        LET path == save_to_csv_path(results, filename, now, io_ok)
            valid == valid_results(results)
        IN  /\ Len(writes) < MaxExports
            /\ pc' = "exported"
            /\ out' = path
            /\ IF path = <<>>
               THEN UNCHANGED <<disk, writes>>
               ELSE /\ disk' = write_file(disk, path, [i \in DOMAIN valid |-> csv_row(valid[i])])
                    /\ writes' = Append(writes, [filename |-> filename, path |-> path])
            /\ UNCHANGED <<text, resumes, skill, case_sensitive, partial_match, matched,
                           file_path, raw_text, document, record, now>>

\* One call of save_search_to_csv (lines 328-356).
SaveSearchToCsv ==
    \E search_results \in ExportSearches, filename \in Filenames, io_ok \in BOOLEAN :
        LET path == save_search_to_csv_path(search_results, filename, now, io_ok)
        IN  /\ Len(writes) < MaxExports
            /\ pc' = "exported"
            /\ out' = path
            /\ IF path = <<>>
               THEN UNCHANGED <<disk, writes>>
               ELSE /\ disk' = write_file(disk, path,
                                          [i \in DOMAIN search_results |->
                                              search_csv_row(search_results[i])])
                    /\ writes' = Append(writes, [filename |-> filename, path |-> path])
            /\ UNCHANGED <<text, resumes, skill, case_sensitive, partial_match, matched,
                           file_path, raw_text, document, record, now>>

ExportNext == Tick \/ SaveToCsv \/ SaveSearchToCsv

SpecExport == ExportInit /\ [][ExportNext]_vars

\* C8: across any sequence of exports with the same base filename, no export
\* writes to a path that an earlier export of the sequence wrote.
C8_NoOverwrite ==
    \A i \in DOMAIN writes : \A j \in DOMAIN writes :
        (i < j /\ writes[i].filename = writes[j].filename)
            => writes[i].path # writes[j].path

=============================================================================
